---- MODULE Spec2Model ----
(***************************************************************************)
(* Model of functions/api.ts: the action dispatcher handleApiRequest, the  *)
(* HTTP wrapper handleApi and the helpers they use, over an abstract       *)
(* relational store holding one user table.                                *)
(*                                                                         *)
(* JavaScript values are records [t, n, s]: t is the type tag, n the       *)
(* number of an integer (or the integer part of a non-integer number), s   *)
(* the characters of a string (or of the JSON text of an object).  Strings *)
(* are sequences of one-character strings so that trim, toLowerCase and    *)
(* includes are computed character by character.  Object keys are TLA+     *)
(* strings; a payload is its table_name value, its other keys as an        *)
(* ordered sequence of <<key, value>> pairs (Object.keys order), and its   *)
(* 'data' and 'params' arrays when it has them.                            *)
(***************************************************************************)
EXTENDS Integers, Sequences, FiniteSets, TLC

\* ------------------------------------------------------------------ bounds

\* Requests handled in one behaviour (each advances the store's clock by one).
MaxClock == 1
\* Keys (besides table_name) in a post / put / delete payload.
MaxKeys == 2
\* Records in a batch_post 'data' array.
MaxBatch == 2
\* Pieces concatenated into an exec query text.
MaxPieces == 2
\* Largest 'limit' the requests carry beyond the cap (LimitCap + MaxOver).
MaxOver == 2

\* ------------------------------------------------------------ JS values

Undef == [t |-> "undef", n |-> 0, s |-> <<>>]
Null == [t |-> "null", n |-> 0, s |-> <<>>]
Num(i) == [t |-> "int", n |-> i, s |-> <<>>]
\* A number that is not an integer (i + 0.5).
Flt(i) == [t |-> "float", n |-> i, s |-> <<>>]
Str(cs) == [t |-> "str", n |-> 0, s |-> cs]
\* An object whose JSON.stringify text is cs.
Obj(cs) == [t |-> "obj", n |-> 0, s |-> cs]

\* v != null
NotNullish(v) == v.t \notin {"undef", "null"}

\* !!v
Truthy(v) ==
  CASE v.t \in {"undef", "null"} -> FALSE
    [] v.t = "int" -> v.n # 0
    [] v.t = "str" -> v.s # <<>>
    [] OTHER -> TRUE

\* ----------------------------------------------------------------- text

UPPER == <<"A","B","C","D","E","F","G","H","I","J","K","L","M",
           "N","O","P","Q","R","S","T","U","V","W","X","Y","Z">>
LOWER == <<"a","b","c","d","e","f","g","h","i","j","k","l","m",
           "n","o","p","q","r","s","t","u","v","w","x","y","z">>

LowerChar(c) ==
  IF \E i \in 1..Len(UPPER) : UPPER[i] = c
    THEN LOWER[CHOOSE i \in 1..Len(UPPER) : UPPER[i] = c]
    ELSE c

\* toLowerCase left out: the text as it came
ToLowerCaseOmitted(cs) == cs

\* String.prototype.toLowerCase
ToLowerCase(cs) == [i \in 1..Len(cs) |-> LowerChar(cs[i])]

IsSpace(c) == c \in {" ", "\t", "\n"}

RECURSIVE TrimLeft(_)
TrimLeft(cs) ==
  IF cs # <<>> /\ IsSpace(Head(cs)) THEN TrimLeft(Tail(cs)) ELSE cs

RECURSIVE TrimRight(_)
TrimRight(cs) ==
  IF cs # <<>> /\ IsSpace(cs[Len(cs)])
    THEN TrimRight(SubSeq(cs, 1, Len(cs) - 1))
    ELSE cs

\* String.prototype.trim
Trim(cs) == TrimRight(TrimLeft(cs))

\* String.prototype.includes
Includes(hay, needle) ==
  \E i \in 1..(Len(hay) - Len(needle) + 1) :
    SubSeq(hay, i, i + Len(needle) - 1) = needle

\* Array.prototype.includes on a sequence
Member(seq, x) == \E i \in 1..Len(seq) : seq[i] = x

RECURSIVE SelectSeqBy(_, _)
\* Array.prototype.filter: the elements of seq in keep, in order
SelectSeqBy(seq, keep) ==
  IF seq = <<>> THEN <<>>
  ELSE IF Head(seq) \in keep
    THEN <<Head(seq)>> \o SelectSeqBy(Tail(seq), keep)
    ELSE SelectSeqBy(Tail(seq), keep)

Range(seq) == {seq[i] : i \in 1..Len(seq)}

\* --------------------------------------------------------------- globals

allowedColumns ==
  <<"id","c1","c2","c3","i1","i2","i3","d1","d2","d3","t1","t2","t3","v1","v2","v3">>
allowedQueryOptions == <<"minId","offset","order","orderby","limit","table_name">>

\* The characters of the identifiers the requests use as keys or values.
Chars ==
  [id |-> <<"i","d">>, c1 |-> <<"c","1">>, c2 |-> <<"c","2">>, c3 |-> <<"c","3">>,
   i1 |-> <<"i","1">>, i2 |-> <<"i","2">>, i3 |-> <<"i","3">>,
   d1 |-> <<"d","1">>, d2 |-> <<"d","2">>, d3 |-> <<"d","3">>,
   t1 |-> <<"t","1">>, t2 |-> <<"t","2">>, t3 |-> <<"t","3">>,
   v1 |-> <<"v","1">>, v2 |-> <<"v","2">>, v3 |-> <<"v","3">>,
   bogus |-> <<"b","o","g","u","s">>, evil |-> <<"e","v","i","l">>,
   minId |-> <<"m","i","n","I","d">>, offset |-> <<"o","f","f","s","e","t">>,
   order |-> <<"o","r","d","e","r">>, orderby |-> <<"o","r","d","e","r","b","y">>,
   limit |-> <<"l","i","m","i","t">>, column |-> <<"c","o","l","u","m","n">>,
   unique |-> <<"u","n","i","q","u","e">>, new_c1 |-> <<"n","e","w","_","c","1">>,
   c1_unique |-> <<"c","1","_","u","n","i","q","u","e">>,
   query |-> <<"q","u","e","r","y">>, desc |-> <<"d","e","s","c">>,
   data |-> <<"d","a","t","a">>, params |-> <<"p","a","r","a","m","s">>]

Columns == Range(allowedColumns)

\* allowedColumns.includes(v) for a JS value v
IsAllowedColumnValue(v) ==
  v.t = "str" /\ \E k \in Columns : Chars[k] = v.s

\* the column named by the characters cs
ColName(cs) == CHOOSE k \in Columns : Chars[k] = cs

SQLITE_MASTER == <<"s","q","l","i","t","e","_","m","a","s","t","e","r">>
SQLITE_SCHEMA == <<"s","q","l","i","t","e","_","s","c","h","e","m","a">>
SQLITE_TEMP_MASTER ==
  <<"s","q","l","i","t","e","_","t","e","m","p","_","m","a","s","t","e","r">>
SQLITE_SEQUENCE == <<"s","q","l","i","t","e","_","s","e","q","u","e","n","c","e">>
CF_PREFIX == <<"_","c","f","_">>

FORBIDDEN_TABLES == {SQLITE_MASTER, SQLITE_SCHEMA, SQLITE_TEMP_MASTER, SQLITE_SEQUENCE}

DB_DA_SYSTEM_TABLENAME ==
  <<"_","_","D","A","_","S","Y","S","T","E","M","_","C","O","N","F","I","G">>

LimitDefault == 100
LimitCap == 500

\* the cap left out: Number.isInteger(v) && v > 0 ? v : 100
LimitUncapped(v) == IF v.t = "int" /\ v.n > 0 THEN v.n ELSE LimitDefault

\* Number.isInteger(v) && v > 0 ? Math.min(v, 500) : 100
Limit(v) ==
  IF v.t = "int" /\ v.n > 0
    THEN (IF v.n < LimitCap THEN v.n ELSE LimitCap)
    ELSE LimitDefault

\* -------------------------------------------------------------- payloads

\* payload.data / payload.params: absent, a value that is no array, or an array.
\* An element of data is an object (its keys in order) or null.
NoArray == [present |-> FALSE, isArray |-> FALSE, items |-> <<>>]
NotAnArray == [present |-> TRUE, isArray |-> FALSE, items |-> <<>>]
Array(items) == [present |-> TRUE, isArray |-> TRUE, items |-> items]
Record(fields) == [isObj |-> TRUE, fields |-> fields]
NullRecord == [isObj |-> FALSE, fields |-> <<>>]

Payload(tn, fields) ==
  [table_name |-> tn, fields |-> fields, data |-> NoArray, params |-> NoArray]

\* payload[k] for a key other than table_name, data and params
Get(fields, k) ==
  IF \E i \in 1..Len(fields) : fields[i][1] = k
    THEN fields[CHOOSE i \in 1..Len(fields) : fields[i][1] = k][2]
    ELSE Undef

\* Object.keys(record)
Keys(fields) == [i \in 1..Len(fields) |-> fields[i][1]]

\* Object.keys(payload) without table_name
PayloadKeys(p) ==
  Keys(p.fields) \o (IF p.data.present THEN <<"data">> ELSE <<>>)
                \o (IF p.params.present THEN <<"params">> ELSE <<>>)

\* keys.map(k => payload[k])
Values(fields, keys) == [i \in 1..Len(keys) |-> Get(fields, keys[i])]

\* keys.filter(k => !excluded.includes(k))
Without(keys, excluded) == SelectSeqBy(keys, Range(keys) \ excluded)

\* the negation left out: keys.filter(k => allowedColumns.includes(k))
InvalidKeysInverted(keys) == SelectSeqBy(keys, Columns)

\* keys.filter(k => !allowedColumns.includes(k))
InvalidKeys(keys) == SelectSeqBy(keys, Range(keys) \ Columns)

\* keys.filter(k => allowedColumns.includes(k))
ValidKeys(keys) == SelectSeqBy(keys, Columns)

normalizeJsonColumns(fields) ==
  [i \in 1..Len(fields) |->
     IF fields[i][1] \in {"t1", "t2", "t3"} /\ fields[i][2].t = "obj"
       THEN <<fields[i][1], Str(fields[i][2].s)>>
       ELSE fields[i]]

\* the blank check made before trimming, and the name compared untrimmed
resolveTableNameUntrimmed(payload) ==
  LET tn == payload.table_name IN
  IF ~NotNullish(tn) THEN [kind |-> "null", name |-> <<>>]
  ELSE IF tn.t # "str" THEN [kind |-> "throw", name |-> <<>>]
  ELSE IF tn.s = <<>> THEN [kind |-> "null", name |-> <<>>]
  ELSE IF tn.s \in FORBIDDEN_TABLES THEN [kind |-> "null", name |-> <<>>]
  ELSE [kind |-> "name", name |-> Trim(tn.s)]

\* [kind |-> "name", name] | [kind |-> "null"] | [kind |-> "throw"]: a value that
\* is neither nullish nor a string has no trim method and the call throws.
resolveTableName(payload) ==
  LET tn == payload.table_name IN
  IF ~NotNullish(tn) THEN [kind |-> "null", name |-> <<>>]
  ELSE IF tn.t # "str" THEN [kind |-> "throw", name |-> <<>>]
  ELSE IF Trim(tn.s) = <<>> THEN [kind |-> "null", name |-> <<>>]
  ELSE IF Trim(tn.s) \in FORBIDDEN_TABLES THEN [kind |-> "null", name |-> <<>>]
  ELSE [kind |-> "name", name |-> Trim(tn.s)]

\* `${v}` for the values interpolated into SQL text
Digits == <<"0","1","2","3","4","5","6","7","8","9">>
RECURSIVE NatText(_)
NatText(n) ==
  IF n < 10 THEN <<Digits[n + 1]>> ELSE NatText(n \div 10) \o <<Digits[(n % 10) + 1]>>
ToText(v) ==
  CASE v.t = "str" -> v.s
    [] v.t = "int" -> (IF v.n < 0 THEN <<"-">> \o NatText(-v.n) ELSE NatText(v.n))
    [] v.t = "float" -> NatText(v.n) \o <<".", "5">>
    [] v.t = "obj" -> <<"[","o","b","j","e","c","t"," ","O","b","j","e","c","t","]">>
    [] v.t = "null" -> <<"n","u","l","l">>
    [] OTHER -> <<"u","n","d","e","f","i","n","e","d">>

\* ----------------------------------------------------------- statements

\* A prepared statement: op is the SQL verb, table the interpolated table
\* name, cols the interpolated column list (insert columns, SET columns, or
\* the indexed column), where the interpolated equality-filter columns,
\* orderBy the ORDER BY column ("" if none), idx the column part of an
\* interpolated index name idx_<table>_<column>, text a raw query, params
\* the bound values.
Stmt(op, table, cols, where, params) ==
  [op |-> op, table |-> table, cols |-> cols, where |-> where, params |-> params,
   orderBy |-> "", desc |-> FALSE, keyset |-> FALSE, limit |-> 0,
   unique |-> FALSE, idx |-> <<>>, text |-> <<>>]

\* The table the requests address.
T == <<"t">>

\* result.changes when the store's result carries no such field
Absent == -1

\* The store: whether table T exists, its rows (functions from column to
\* value), the last id AUTOINCREMENT handed out, the column parts of the
\* indices idx_t_<column>, and whether the system table exists.
EmptyDb == [exists |-> FALSE, rows |-> {}, lastId |-> 0, indices |-> {}, sys |-> FALSE]

Ids(rows) == {r["id"].n : r \in rows}

Max(a, b) == IF a > b THEN a ELSE b

\* column = ? in SQL: never true of NULL
SqlEq(a, b) == NotNullish(a) /\ NotNullish(b) /\ a = b

\* SQLite's ordering of storage classes: NULL, then numbers, then text.  Text
\* is compared with text in no reachable store (id and i1 hold numbers).
Rank(v) == IF ~NotNullish(v) THEN 0 ELSE IF v.t \in {"int", "float"} THEN 1 ELSE 2
NumKey(v) == IF v.t = "float" THEN 2 * v.n + 1 ELSE 2 * v.n
SqlLess(a, b) ==
  \/ Rank(a) < Rank(b)
  \/ Rank(a) = 1 /\ Rank(b) = 1 /\ NumKey(a) < NumKey(b)

\* the filters joined with OR instead of AND
MatchesAny(r, where, params) ==
  where = <<>> \/ \E i \in 1..Len(where) : SqlEq(r[where[i]], params[i])

\* WHERE k1 = ? AND k2 = ? ...
Matches(r, where, params) ==
  \A i \in 1..Len(where) : SqlEq(r[where[i]], params[i])

\* INSERT INTO t (cols) VALUES (?...): [db, err]
StoreInsert(db, s, now) ==
  LET given(k) == IF Member(s.cols, k)
                    THEN s.params[CHOOSE i \in 1..Len(s.cols) : s.cols[i] = k]
                    ELSE Null
      idv == given("id")
      newId == IF NotNullish(idv) THEN idv.n ELSE db.lastId + 1
      row == [k \in Columns |->
                IF k = "id" THEN Num(newId)
                ELSE IF Member(s.cols, k) THEN given(k)
                ELSE IF k \in {"v1", "v2", "v3"} THEN Num(now)
                ELSE Null]
  IN
  IF ~db.exists \/ s.table # T THEN [db |-> db, err |-> "no such table"]
  ELSE IF s.cols = <<>> THEN [db |-> db, err |-> "syntax error"]
  ELSE IF NotNullish(idv) /\ idv.t # "int" THEN [db |-> db, err |-> "datatype mismatch"]
  ELSE IF newId \in Ids(db.rows) THEN [db |-> db, err |-> "UNIQUE constraint failed"]
  ELSE [db |-> [db EXCEPT !.rows = @ \cup {row}, !.lastId = Max(@, newId)],
        err |-> ""]

RECURSIVE StoreBatchInserts(_, _, _)
\* db.batch(statements): one transaction, all statements or none
StoreBatchInserts(db, stmts, now) ==
  IF stmts = <<>> THEN [db |-> db, err |-> ""]
  ELSE LET one == StoreInsert(db, Head(stmts), now) IN
       IF one.err # "" THEN one ELSE StoreBatchInserts(one.db, Tail(stmts), now)

\* UPDATE t SET cols = ?, v2 = CURRENT_TIMESTAMP WHERE where = ?: [db, err, changes]
StoreUpdate(db, s, now) ==
  LET n == Len(s.cols)
      hit == {r \in db.rows : Matches(r, s.where, SubSeq(s.params, n + 1, Len(s.params)))}
      upd(r) == [k \in Columns |->
                   IF Member(s.cols, k)
                     THEN s.params[CHOOSE i \in 1..n : s.cols[i] = k]
                   ELSE IF k = "v2" THEN Num(now)
                   ELSE r[k]]
  IN
  IF ~db.exists \/ s.table # T THEN [db |-> db, err |-> "no such table", changes |-> 0]
  ELSE [db |-> [db EXCEPT !.rows = (@ \ hit) \cup {upd(r) : r \in hit}],
        err |-> "", changes |-> Cardinality(hit)]

\* DELETE FROM t [WHERE where = ?]: [db, err, changes]
StoreDelete(db, s) ==
  LET hit == {r \in db.rows : Matches(r, s.where, s.params)} IN
  IF ~db.exists \/ s.table # T THEN [db |-> db, err |-> "no such table", changes |-> 0]
  ELSE [db |-> [db EXCEPT !.rows = @ \ hit], err |-> "", changes |-> Cardinality(hit)]

\* r comes before q in ORDER BY orderBy ASC|DESC (ties in id order)
Before(r, q, orderBy, desc) ==
  IF r[orderBy] = q[orderBy] THEN r["id"].n < q["id"].n
  ELSE IF desc THEN SqlLess(q[orderBy], r[orderBy])
  ELSE SqlLess(r[orderBy], q[orderBy])

RECURSIVE TakeFirst(_, _, _, _)
\* the first n rows of S in the order
TakeFirst(S, n, orderBy, desc) ==
  IF S = {} \/ n = 0 THEN {}
  ELSE LET r == CHOOSE x \in S : \A q \in S \ {x} : Before(x, q, orderBy, desc) IN
       {r} \cup TakeFirst(S \ {r}, n - 1, orderBy, desc)

\* SELECT * FROM t [WHERE ...] ORDER BY orderBy ASC|DESC LIMIT limit: [rows, err].
\* The keyset bound, when present, is the last parameter.
StoreSelect(db, s) ==
  LET nf == Len(s.where)
      bound == s.params[Len(s.params)]
      inKeyset(r) ==
        ~s.keyset
        \/ /\ NotNullish(r[s.orderBy]) /\ NotNullish(bound)
           /\ IF s.desc THEN SqlLess(r[s.orderBy], bound) ELSE SqlLess(bound, r[s.orderBy])
      hit == {r \in db.rows : Matches(r, s.where, SubSeq(s.params, 1, nf)) /\ inKeyset(r)}
  IN
  IF ~db.exists \/ s.table # T THEN [rows |-> {}, err |-> "no such table"]
  ELSE [rows |-> TakeFirst(hit, s.limit, s.orderBy, s.desc), err |-> ""]

\* ------------------------------------------------------------- outcomes

\* An error message: m the fixed text, names the interpolated names (each a
\* character sequence), cause the store's message it wraps.
NoErr == [m |-> "", names |-> <<>>, cause |-> ""]
Err(m) == [m |-> m, names |-> <<>>, cause |-> ""]
ErrNaming(m, names) == [m |-> m, names |-> names, cause |-> ""]
KeyChars(keys) == [i \in 1..Len(keys) |-> Chars[keys[i]]]

\* What handleApiRequest returns: null, {error}, or a result object.
\* n is the count it carries (Absent when the field is undefined).
Ret(tag, n, rows) == [tag |-> tag, error |-> NoErr, n |-> n, rows |-> rows]
RetNull == Ret("null", 0, {})
RetError(e) == [tag |-> "error", error |-> e, n |-> 0, rows |-> {}]

\* The observable steps of a request, in order: a diagnostic (errDelegate),
\* a statement prepared, a call that executes statements on the store.
Diag(msg) == [e |-> "errDelegate", msg |-> msg, stmts |-> <<>>]
Prepared(st) == [e |-> "prepare", msg |-> "", stmts |-> <<st>>]
Executed(stmts) == [e |-> "execute", msg |-> "", stmts |-> stmts]
PrepareAll(stmts) == [i \in 1..Len(stmts) |-> Prepared(stmts[i])]

\* The result of a case of the switch: exc is the message of an exception it
\* throws ("" when it returns).
Done(ret, events, db) == [ret |-> ret, events |-> events, db |-> db, exc |-> ""]
Thrown(msg, events, db) == [ret |-> RetNull, events |-> events, db |-> db, exc |-> msg]

\* result.changes as the handler reads it
Changes(n, rep) == IF rep THEN n ELSE Absent

\* result.changes ?? 0
OrZero(n) == IF n = Absent THEN 0 ELSE n

\* err.message.includes("UNIQUE")
MentionsUnique(msg) == msg \in {"UNIQUE constraint failed"}

\* ---------------------------------------------------------------- cases

daCreateTableStmts(tableName, c1Unique) ==
  <<[Stmt("create_table", tableName, <<>>, <<>>, <<>>) EXCEPT !.unique = c1Unique]>>
  \o (IF c1Unique THEN <<>>
      ELSE <<[Stmt("create_index", tableName, <<"c1">>, <<>>, <<>>) EXCEPT !.idx = Chars["c1"]]>>)
  \o <<[Stmt("create_index", tableName, <<"v2">>, <<>>, <<>>) EXCEPT !.idx = Chars["v2"]]>>

\* daSystemTableInit: the table is created, the version insert is prepared, and
\* binding it reads DB_VERSION, which no file of the repository defines.
CaseInitSystem(p, tableName, db, now, fault, rep) ==
  LET create == daCreateTableStmts(DB_DA_SYSTEM_TABLENAME, TRUE)
      versionInsert == Stmt("insert_or_ignore", DB_DA_SYSTEM_TABLENAME,
                            <<"id", "c1", "c2", "i1", "d1">>, <<>>, <<>>)
      ev == PrepareAll(create) \o <<Executed(create)>>
  IN
  IF fault # "" THEN Thrown(fault, ev, db)
  ELSE Thrown("DB_VERSION is not defined", ev \o <<Prepared(versionInsert)>>,
              [db EXCEPT !.sys = TRUE])

CaseExec(p, tableName, db, now, fault, rep) ==
  LET query == Get(p.fields, "query")
      lowerQuery == Trim(ToLowerCase(query.s))
      st == [Stmt("raw", <<>>, <<>>, <<>>,
                  IF p.params.isArray THEN p.params.items ELSE <<>>)
               EXCEPT !.text = query.s]
      ev == <<Prepared(st), Executed(<<st>>)>>
  IN
  IF ~Truthy(query) THEN Done(RetError(Err("Missing SQL query")), <<>>, db)
  ELSE IF query.t # "str" THEN Thrown("query.toLowerCase is not a function", <<>>, db)
  ELSE IF Includes(lowerQuery, SQLITE_MASTER) \/ Includes(lowerQuery, CF_PREFIX)
    THEN Done(RetError(Err("Access to system tables via EXEC is forbidden.")), <<>>, db)
  ELSE IF fault # ""
    THEN Done(RetError([m |-> "SQL Execution Error", names |-> <<>>, cause |-> fault]),
              ev, db)
  ELSE Done(Ret("success", 0, {}), ev, db)

CaseCreateTable(p, tableName, db, now, fault, rep) ==
  LET c1Unique == Truthy(Get(p.fields, "c1_unique"))
      stmts == daCreateTableStmts(tableName, c1Unique)
      ev == PrepareAll(stmts) \o <<Executed(stmts)>>
  IN
  IF fault # "" THEN Thrown(fault, ev, db)
  ELSE Done(Ret("message", 0, {}), ev,
            IF tableName = T
              THEN [db EXCEPT !.exists = TRUE,
                              !.indices = @ \cup {stmts[i].idx : i \in 2..Len(stmts)}]
              ELSE db)

CaseListTables(p, tableName, db, now, fault, rep) ==
  LET st == Stmt("list_tables", SQLITE_MASTER, <<>>, <<>>, <<>>)
      ev == <<Prepared(st), Executed(<<st>>)>>
  IN
  IF fault # "" THEN Thrown(fault, ev, db)
  ELSE Done(Ret("tables", (IF db.exists THEN 1 ELSE 0) + (IF db.sys THEN 1 ELSE 0), {}),
            ev, db)

\* records.map(...): the statement of one record of 'data'
RecordInsert(tableName, rec) ==
  LET fields == normalizeJsonColumns(rec.fields)
      keys == ValidKeys(Keys(fields))
  IN Stmt("insert", tableName, keys, <<>>, Values(fields, keys))

CaseBatchPost(p, tableName, db, now, fault, rep) ==
  LET records == p.data.items
      bad == {i \in 1..Len(records) : ~records[i].isObj}
      \* normalizeJsonColumns(null) throws at the first null record
      upto == IF bad = {} THEN Len(records)
              ELSE (CHOOSE i \in bad : \A j \in bad : i <= j) - 1
      stmts == [i \in 1..upto |-> RecordInsert(tableName, records[i])]
      run == StoreBatchInserts(db, stmts, now)
  IN
  IF ~p.data.isArray
    THEN Done(RetError(Err("Payload 'data' must be an array")), <<>>, db)
  ELSE IF bad # {}
    THEN Thrown("Cannot read properties of null", PrepareAll(stmts), db)
  ELSE IF fault # "" THEN Thrown(fault, PrepareAll(stmts) \o <<Executed(stmts)>>, db)
  ELSE IF run.err # "" THEN Thrown(run.err, PrepareAll(stmts) \o <<Executed(stmts)>>, db)
  ELSE Done(Ret("inserted", Len(stmts), {}), PrepareAll(stmts) \o <<Executed(stmts)>>,
            run.db)

CaseDropTable(p, tableName, db, now, fault, rep) ==
  LET st == Stmt("drop_table", tableName, <<>>, <<>>, <<>>)
      ev == <<Prepared(st), Executed(<<st>>)>>
  IN
  IF fault # "" THEN Thrown(fault, ev, db)
  ELSE Done(Ret("message", 0, {}), ev,
            IF tableName = T
              THEN [db EXCEPT !.exists = FALSE, !.rows = {}, !.lastId = 0, !.indices = {}]
              ELSE db)

CaseCreateIndex(p, tableName, db, now, fault, rep) ==
  LET col == Get(p.fields, "column")
      st == [Stmt("create_index", tableName, <<ColName(col.s)>>, <<>>, <<>>)
               EXCEPT !.idx = col.s, !.unique = Truthy(Get(p.fields, "unique"))]
      ev == <<Prepared(st), Executed(<<st>>)>>
  IN
  IF ~Truthy(col) \/ ~IsAllowedColumnValue(col)
    THEN Done(RetError(ErrNaming("Invalid column", <<ToText(col)>>)), <<>>, db)
  ELSE IF fault # "" THEN Thrown(fault, ev, db)
  ELSE IF ~db.exists \/ tableName # T THEN Thrown("no such table", ev, db)
  ELSE Done(Ret("message", 0, {}), ev, [db EXCEPT !.indices = @ \cup {col.s}])

CaseListIndices(p, tableName, db, now, fault, rep) ==
  LET st == Stmt("index_list", tableName, <<>>, <<>>, <<>>)
      ev == <<Prepared(st), Executed(<<st>>)>>
  IN
  IF fault # "" THEN Thrown(fault, ev, db)
  ELSE Done(Ret("indices", IF tableName = T THEN Cardinality(db.indices) ELSE 0, {}),
            ev, db)

CaseDropIndex(p, tableName, db, now, fault, rep) ==
  LET col == Get(p.fields, "column")
      st == [Stmt("drop_index", tableName, <<>>, <<>>, <<>>) EXCEPT !.idx = ToText(col)]
      ev == <<Prepared(st), Executed(<<st>>)>>
  IN
  IF ~Truthy(col) THEN Done(RetError(Err("Missing column")), <<>>, db)
  ELSE IF fault # "" THEN Thrown(fault, ev, db)
  ELSE Done(Ret("message", 0, {}), ev,
            IF tableName = T THEN [db EXCEPT !.indices = @ \ {ToText(col)}] ELSE db)

CasePost(p, tableName, db, now, fault, rep) ==
  LET q == [p EXCEPT !.fields = normalizeJsonColumns(p.fields)]
      keys == PayloadKeys(q)
      invalidKeys == InvalidKeys(keys)
      st == Stmt("insert", tableName, keys, <<>>, Values(q.fields, keys))
      ev == <<Prepared(st), Executed(<<st>>)>>
      run == StoreInsert(db, st, now)
  IN
  IF invalidKeys # <<>>
    THEN Done(RetError(ErrNaming("Invalid columns", KeyChars(invalidKeys))), <<>>, db)
  ELSE IF fault # "" THEN Thrown(fault, ev, db)
  ELSE IF run.err # "" THEN Thrown(run.err, ev, db)
  ELSE Done(RetNull, ev, run.db)

CasePut(p, tableName, db, now, fault, rep) ==
  LET hasId == NotNullish(Get(p.fields, "id"))
      hasC1 == NotNullish(Get(p.fields, "c1"))
      q == [p EXCEPT !.fields = normalizeJsonColumns(p.fields)]
      keysPut == Without(PayloadKeys(q), {"table_name", "id", "c1"})
      invalidKeys == InvalidKeys(keysPut)
      whereCol == IF hasId THEN "id" ELSE "c1"
      whereValue == Get(q.fields, whereCol)
      \* with no key to set, SET v2 = CURRENT_TIMESTAMP alone
      st == Stmt("update", tableName, keysPut, <<whereCol>>,
                 Values(q.fields, keysPut) \o <<whereValue>>)
      ev == <<Prepared(st), Executed(<<st>>)>>
      run == StoreUpdate(db, st, now)
  IN
  IF ~hasId /\ ~hasC1 THEN Done(RetError(Err("Missing 'id' or 'c1' for update")), <<>>, db)
  ELSE IF invalidKeys # <<>>
    THEN Done(RetError(ErrNaming("Invalid columns", KeyChars(invalidKeys))), <<>>, db)
  ELSE IF fault # "" THEN Thrown(fault, ev, db)
  ELSE IF run.err # "" THEN Thrown(run.err, ev, db)
  ELSE IF Changes(run.changes, rep) = 0
    THEN Done(RetError(Err("Record not found or no rows updated")), ev, run.db)
  ELSE Done(Ret("updated", Changes(run.changes, rep), {}), ev, run.db)

CaseUpdateC1(p, tableName, db, now, fault, rep) ==
  LET id == Get(p.fields, "id")
      new_c1 == Get(p.fields, "new_c1")
      st == Stmt("update", tableName, <<"c1">>, <<"id">>, <<new_c1, id>>)
      ev == <<Prepared(st), Executed(<<st>>)>>
      run == StoreUpdate(db, st, now)
      msg == IF fault # "" THEN fault ELSE run.err
  IN
  IF ~Truthy(id) \/ ~Truthy(new_c1) THEN Done(RetError(Err("Missing id or new_c1")), <<>>, db)
  ELSE IF msg # ""
    THEN (IF MentionsUnique(msg) THEN Done(RetError(Err("c1 already exists")), ev, db)
          ELSE Thrown(msg, ev, db))
  ELSE IF Changes(run.changes, rep) = 0
    THEN Done(RetError(Err("Record not found")), ev, run.db)
  ELSE Done(Ret("renamed", 0, {}), ev, run.db)

\* the test by truthiness: options.minId && options.offset
BothPagingTruthy(minId, offset) == Truthy(minId) /\ Truthy(offset)

\* options.minId != null && options.offset != null
BothPaging(minId, offset) == NotNullish(minId) /\ NotNullish(offset)

CaseGet(p, tableName, db, now, fault, rep) ==
  LET options == p.fields
      columnFilters == Without(PayloadKeys(p), Range(allowedQueryOptions))
      invalid == InvalidKeys(columnFilters)
      desc == Get(options, "order") = Str(Chars["desc"])
      orderBy == IF IsAllowedColumnValue(Get(options, "orderby"))
                   THEN ColName(Get(options, "orderby").s) ELSE "id"
      minId == Get(options, "minId")
      offset == Get(options, "offset")
      keyset == NotNullish(offset) \/ NotNullish(minId)
      st == [Stmt("select", tableName, <<>>, columnFilters,
                  Values(options, columnFilters)
                  \o (IF NotNullish(offset) THEN <<offset>>
                      ELSE IF NotNullish(minId) THEN <<minId>> ELSE <<>>))
               EXCEPT !.orderBy = orderBy, !.desc = desc, !.keyset = keyset,
                      !.limit = Limit(Get(options, "limit"))]
      ev == <<Prepared(st), Executed(<<st>>)>>
      run == StoreSelect(db, st)
  IN
  \* the loop returns at the first filter key that is no column
  IF invalid # <<>>
    THEN Done(RetError(ErrNaming("Invalid column", <<Chars[Head(invalid)]>>)), <<>>, db)
  ELSE IF BothPaging(minId, offset)
    THEN Done(RetError(Err("Cannot use both minId and offset")), <<>>, db)
  ELSE IF fault # "" THEN Thrown(fault, ev, db)
  ELSE IF run.err # "" THEN Thrown(run.err, ev, db)
  ELSE Done(Ret("rows", 0, run.rows), ev, db)

CaseDelete(p, tableName, db, now, fault, rep) ==
  LET keys == PayloadKeys(p)
      invalidKeys == InvalidKeys(keys)
      st == Stmt("delete", tableName, <<>>, keys, Values(p.fields, keys))
      \* the filterless delete is reported before it is executed
      ev == (IF keys = <<>> THEN <<Diag("DELETE ALL")>> ELSE <<>>)
            \o <<Prepared(st), Executed(<<st>>)>>
      run == StoreDelete(db, st)
  IN
  IF invalidKeys # <<>>
    THEN Done(RetError(ErrNaming("Invalid columns", KeyChars(invalidKeys))), <<>>, db)
  ELSE IF fault # "" THEN Thrown(fault, ev, db)
  ELSE IF run.err # "" THEN Thrown(run.err, ev, db)
  ELSE Done(Ret("deleted", OrZero(Changes(run.changes, rep)), {}), ev, run.db)

CaseDefault(p, tableName, db, now, fault, rep) ==
  Done(RetError(Err("Unknown action")), <<>>, db)

\* -------------------------------------------------------- the dispatcher

Switch(action, p, tableName, db, now, fault, rep) ==
  CASE action = "init_system" -> CaseInitSystem(p, tableName, db, now, fault, rep)
    [] action = "exec" -> CaseExec(p, tableName, db, now, fault, rep)
    [] action = "create_table" -> CaseCreateTable(p, tableName, db, now, fault, rep)
    [] action = "list_tables" -> CaseListTables(p, tableName, db, now, fault, rep)
    [] action = "batch_post" -> CaseBatchPost(p, tableName, db, now, fault, rep)
    [] action = "drop_table" -> CaseDropTable(p, tableName, db, now, fault, rep)
    [] action = "create_index" -> CaseCreateIndex(p, tableName, db, now, fault, rep)
    [] action = "list_indices" -> CaseListIndices(p, tableName, db, now, fault, rep)
    [] action = "drop_index" -> CaseDropIndex(p, tableName, db, now, fault, rep)
    [] action = "post" -> CasePost(p, tableName, db, now, fault, rep)
    [] action = "put" -> CasePut(p, tableName, db, now, fault, rep)
    [] action = "update_c1" -> CaseUpdateC1(p, tableName, db, now, fault, rep)
    [] action = "get" -> CaseGet(p, tableName, db, now, fault, rep)
    [] action = "delete" -> CaseDelete(p, tableName, db, now, fault, rep)
    [] OTHER -> CaseDefault(p, tableName, db, now, fault, rep)

\* try { switch ... } catch (err) { errDelegate(...); return { error: err.message } }
TryCatch(r) ==
  IF r.exc = "" THEN r
  ELSE Done(RetError(Err(r.exc)), r.events \o <<Diag("DB operation failed")>>, r.db)

\* What the try block or the catch block returned.
Returned(r) == [ret |-> r.ret, events |-> r.events, db |-> r.db, escaped |-> FALSE]

\* handleApiRequest: escaped is TRUE when an exception leaves the function.
handleApiRequest(action, p, db, now, fault, rep) ==
  LET tn == resolveTableName(p) IN
  IF tn.kind = "throw"
    THEN [ret |-> RetNull, events |-> <<>>, db |-> db, escaped |-> TRUE]
  ELSE IF tn.kind = "null"
    THEN [ret |-> RetError(Err("Invalid or missing table_name")),
          events |-> <<Diag("Invalid or missing table_name")>>,
          db |-> db, escaped |-> FALSE]
  ELSE Returned(TryCatch(Switch(action, p, tn.name, db, now, fault, rep)))

\* The response of handleApi: an ack or nack envelope, or no envelope at all
\* when an exception reaches the transport layer.
ack(ret) == [type |-> "ack", status |-> 200, code |-> "", message |-> NoErr]
nack(code, message) == [type |-> "nack", status |-> 400, code |-> code, message |-> message]
Unhandled == [type |-> "exception", status |-> 0, code |-> "", message |-> NoErr]

\* ret && ret.error: a non-empty string
HasError(ret) == ret.tag # "null" /\ ret.error.m # ""

\* handleApi, once the request is authenticated and carries a payload
Respond(o) ==
  IF o.escaped THEN Unhandled
  ELSE IF HasError(o.ret) THEN nack("REQUEST_FAILED", o.ret.error)
  ELSE ack(o.ret)

\* ---------------------------------------------------------------- state

VARIABLES
  db,      \* the store
  now,     \* the store's clock (CURRENT_TIMESTAMP)
  pc,      \* "idle": waiting for a request; "done": a request was handled
  req,     \* the request handled last
  out,     \* what handleApiRequest did with it: ret, events, escaped
  resp,    \* the response handleApi gave
  before   \* the store as it was when the request arrived

vars == <<db, now, pc, req, out, resp, before>>

NoPayload == Payload(Undef, <<>>)
NoReq == [action |-> "", p |-> NoPayload, fault |-> "", rep |-> TRUE]
NoOut == [ret |-> RetNull, events |-> <<>>, db |-> EmptyDb, escaped |-> FALSE]
NoResp == [type |-> "", status |-> 0, code |-> "", message |-> NoErr]

\* ---------------------------------------------------------------- inputs

A == <<"a">>
X == <<"x">>
Y == <<"y">>
JsonText == <<"{", "}">>

\* A table created by create_table and filled by two posts at time 0.
Row(id, c1, c2) ==
  [k \in Columns |->
     CASE k = "id" -> Num(id)
       [] k = "c1" -> c1
       [] k = "c2" -> c2
       [] k \in {"v1", "v2", "v3"} -> Num(0)
       [] OTHER -> Null]
SeededDb ==
  [exists |-> TRUE, rows |-> {Row(1, Str(A), Str(X)), Row(2, Str(A), Null)},
   lastId |-> 2, indices |-> {Chars["c1"], Chars["v2"]}, sys |-> FALSE]

\* Sequences of at most n pairs of pool with pairwise different keys.
RECURSIVE FieldSeqs(_, _)
FieldSeqs(pool, n) ==
  IF n = 0 THEN {<<>>}
  ELSE LET shorter == FieldSeqs(pool, n - 1) IN
       shorter \cup {f \o <<kv>> : f \in shorter, kv \in pool}

DistinctKeys(f) == \A i, j \in 1..Len(f) : i # j => f[i][1] # f[j][1]
Fields(pool, n) == {f \in FieldSeqs(pool, n) : DistinctKeys(f)}

\* The table names sent with every payload, and the further ones sent with
\* the plain payloads.
TableNames ==
  {Str(T), Str(<<" ", "t", " ">>), Undef, Str(<<" ", " ">>), Str(SQLITE_MASTER), Num(7)}
MoreTableNames ==
  {Null, Str(<<>>), Str(SQLITE_SCHEMA), Str(SQLITE_TEMP_MASTER), Str(SQLITE_SEQUENCE),
   Str(<<" ">> \o SQLITE_SEQUENCE \o <<" ">>), Obj(JsonText)}

\* How the store behaves during the request: the message of the error its
\* call throws ("" for none), and whether its result carries 'changes'.
StoreBehaviours ==
  {<<"", TRUE>>, <<"", FALSE>>, <<"D1_ERROR", TRUE>>, <<"UNIQUE constraint failed", TRUE>>}

\* The requests for the payloads P: every store behaviour for table t, and
\* every other table name of names (the store's behaviour does not show
\* before the table name is resolved).
Requests(P, names) ==
  {[p |-> [q EXCEPT !.table_name = Str(T)], fault |-> b[1], rep |-> b[2]] :
     q \in P, b \in StoreBehaviours}
  \cup {[p |-> [q EXCEPT !.table_name = tn], fault |-> "", rep |-> TRUE] :
          q \in P, tn \in names \ {Str(T)}}

PayloadsOf(F) == {Payload(Undef, f) : f \in F}

ColumnPool ==
  {<<"c1", Str(A)>>, <<"c2", Str(Y)>>, <<"t1", Obj(JsonText)>>,
   <<"bogus", Num(1)>>, <<"evil", Num(1)>>}
PostPayloads == PayloadsOf(Fields(ColumnPool \cup {<<"id", Num(1)>>}, MaxKeys))
PutPayloads ==
  PayloadsOf(Fields(ColumnPool \cup {<<"id", Num(1)>>, <<"id", Num(9)>>, <<"id", Null>>},
                    MaxKeys))
DeletePayloads ==
  PayloadsOf(Fields({<<"c1", Str(A)>>, <<"c2", Str(X)>>, <<"id", Num(2)>>, <<"c2", Null>>,
                     <<"bogus", Num(1)>>, <<"evil", Num(1)>>}, MaxKeys))

BatchRecords ==
  {NullRecord, Record(<<<<"t1", Obj(JsonText)>>>>)} \cup
  {Record(f) : f \in Fields({<<"c1", Str(A)>>, <<"bogus", Num(1)>>}, MaxKeys)}
RECURSIVE Arrays(_, _)
Arrays(S, n) ==
  IF n = 0 THEN {<<>>}
  ELSE LET shorter == Arrays(S, n - 1) IN shorter \cup {a \o <<x>> : a \in shorter, x \in S}
BatchPayloads ==
  {[Payload(Undef, <<>>) EXCEPT !.data = d] :
     d \in {NoArray, NotAnArray} \cup {Array(a) : a \in Arrays(BatchRecords, MaxBatch)}}

Pieces ==
  {<<"S","E","L","E","C","T"," ">>,
   <<"s","q","l","i","t","e","_">>, <<"S","q","L","i","t","E","_">>,
   <<"m","a","s","t","e","r">>, <<"M","A","S","T","E","R">>,
   CF_PREFIX, <<"_","C","f","_">>}
RECURSIVE Texts(_)
Texts(n) ==
  IF n = 0 THEN {<<>>}
  ELSE LET shorter == Texts(n - 1) IN shorter \cup {x \o c : x \in shorter, c \in Pieces}
ExecPayloads ==
  PayloadsOf({<<>>, <<<<"query", Num(5)>>>>, <<<<"query", Null>>>>}
             \cup {<<<<"query", Str(x)>>>> : x \in Texts(MaxPieces)})
  \cup {[Payload(Undef, <<<<"query", Str(x)>>>>) EXCEPT !.params = a] :
          x \in Texts(1), a \in {NotAnArray, Array(<<Num(1)>>)}}

ColumnValues ==
  {Undef, Null, Str(<<>>), Num(0), Num(5), Str(Chars["c2"]), Str(Chars["id"]),
   Str(Chars["bogus"]), Str(<<"x", ";", "-", "-">>), Str(<<"C", "2">>)}
IndexPayloads ==
  {Payload(Undef, (IF c = Undef THEN <<>> ELSE <<<<"column", c>>>>) \o u) :
     c \in ColumnValues, u \in {<<>>, <<<<"unique", Num(1)>>>>}}

CreateTablePayloads ==
  PayloadsOf({<<>>, <<<<"c1_unique", Num(1)>>>>, <<<<"c1_unique", Num(0)>>>>})

UpdateC1Payloads ==
  PayloadsOf({i \o c : i \in {<<>>, <<<<"id", Num(1)>>>>, <<<<"id", Num(9)>>>>, <<<<"id", Num(0)>>>>},
                       c \in {<<>>, <<<<"new_c1", Str(Y)>>>>, <<<<"new_c1", Str(<<>>)>>>>}})

LimitValues ==
  {Null, Flt(2), Str(<<"5">>)}
  \cup {Num(n) : n \in (-2..2) \cup ((LimitCap - 1)..(LimitCap + MaxOver))}
Filters == Fields({<<"c1", Str(A)>>, <<"bogus", Num(1)>>, <<"evil", Num(1)>>}, MaxKeys)
Paging ==
  {<<>>, <<<<"minId", Num(1)>>>>, <<<<"offset", Num(1)>>>>,
   <<<<"minId", Num(1)>>, <<"offset", Num(0)>>>>, <<<<"minId", Null>>, <<"offset", Num(1)>>>>}
Ordering ==
  {<<>>, <<<<"order", Str(Chars["desc"])>>, <<"orderby", Str(Chars["i1"])>>>>,
   <<<<"orderby", Str(Chars["bogus"])>>>>}
GetPayloads ==
  PayloadsOf({f \o g \o o \o l : f \in Filters, g \in Paging, o \in Ordering,
                                 l \in {<<>>, <<<<"limit", Num(1)>>>>}}
             \cup {f \o g \o <<<<"limit", l>>>> :
                     f \in {<<>>, <<<<"c1", Str(A)>>>>},
                     g \in {<<>>, <<<<"minId", Num(1)>>>>}, l \in LimitValues})

PlainPayloads == PayloadsOf({<<>>, <<<<"bogus", Num(1)>>>>})

\* --------------------------------------------------------------- actions

Init ==
  /\ db \in {EmptyDb, SeededDb}
  /\ now = 0
  /\ pc = "idle"
  /\ req = NoReq
  /\ out = NoOut
  /\ resp = NoResp
  /\ before = EmptyDb

\* A request can be taken: none is in progress (and the clock is below its bound).
Ready == pc = "idle" /\ now < MaxClock

\* handleApi for an authenticated request with a payload: the dispatcher runs
\* to its end (the store's clock has moved on since the request before).
Answer(action, r, o) ==
  /\ out' = o
  /\ db' = o.db
  /\ resp' = Respond(o)
  /\ now' = now + 1
  /\ pc' = "done"
  /\ req' = [action |-> action, p |-> r.p, fault |-> r.fault, rep |-> r.rep]
  /\ before' = db

Handle(action, r) ==
  Answer(action, r, handleApiRequest(action, r.p, db, now + 1, r.fault, r.rep))

InitSystemRequests == Requests(PlainPayloads, TableNames \cup MoreTableNames)
ExecRequests == Requests(ExecPayloads, TableNames)
CreateTableRequests == Requests(CreateTablePayloads, TableNames)
ListTablesRequests == Requests(PlainPayloads, TableNames \cup MoreTableNames)
BatchPostRequests == Requests(BatchPayloads, TableNames)
DropTableRequests == Requests(PlainPayloads, TableNames \cup MoreTableNames)
CreateIndexRequests == Requests(IndexPayloads, TableNames)
ListIndicesRequests == Requests(PlainPayloads, TableNames \cup MoreTableNames)
DropIndexRequests == Requests(IndexPayloads, TableNames)
PostRequests == Requests(PostPayloads, TableNames)
PutRequests == Requests(PutPayloads, TableNames)
UpdateC1Requests == Requests(UpdateC1Payloads, TableNames)
GetRowsRequests == Requests(GetPayloads, TableNames)
DeleteRequests == Requests(DeletePayloads, TableNames)
UnknownActionRequests == Requests(PlainPayloads, TableNames \cup MoreTableNames)

InitSystem == Ready /\ \E r \in InitSystemRequests : Handle("init_system", r)
Exec == Ready /\ \E r \in ExecRequests : Handle("exec", r)
CreateTable == Ready /\ \E r \in CreateTableRequests : Handle("create_table", r)
ListTables == Ready /\ \E r \in ListTablesRequests : Handle("list_tables", r)
BatchPost == Ready /\ \E r \in BatchPostRequests : Handle("batch_post", r)
DropTable == Ready /\ \E r \in DropTableRequests : Handle("drop_table", r)
CreateIndex == Ready /\ \E r \in CreateIndexRequests : Handle("create_index", r)
ListIndices == Ready /\ \E r \in ListIndicesRequests : Handle("list_indices", r)
DropIndex == Ready /\ \E r \in DropIndexRequests : Handle("drop_index", r)
Post == Ready /\ \E r \in PostRequests : Handle("post", r)
Put == Ready /\ \E r \in PutRequests : Handle("put", r)
UpdateC1 == Ready /\ \E r \in UpdateC1Requests : Handle("update_c1", r)
GetRows == Ready /\ \E r \in GetRowsRequests : Handle("get", r)
Delete == Ready /\ \E r \in DeleteRequests : Handle("delete", r)
UnknownAction == Ready /\ \E r \in UnknownActionRequests : Handle("truncate", r)

\* handleApi's checks before the dispatcher: no store call, a nack.
Refuse ==
  /\ Ready
  /\ \E c \in {"UNAUTHORIZED", "INVALID_TOKEN", "INVALID_JSON", "INVALID_FIELD"} :
       resp' = nack(c, Err(c))
  /\ pc' = "done"
  /\ req' = NoReq
  /\ out' = [NoOut EXCEPT !.db = db]
  /\ before' = db
  /\ UNCHANGED <<db, now>>

\* The response is returned; nothing of the request outlives it.
ReturnResponse ==
  /\ pc = "done"
  /\ pc' = "idle"
  /\ req' = NoReq
  /\ out' = NoOut
  /\ resp' = NoResp
  /\ before' = EmptyDb
  /\ UNCHANGED <<db, now>>

Next ==
  \/ InitSystem \/ Exec \/ CreateTable \/ ListTables \/ BatchPost \/ DropTable
  \/ CreateIndex \/ ListIndices \/ DropIndex \/ Post \/ Put \/ UpdateC1
  \/ GetRows \/ Delete \/ UnknownAction \/ Refuse \/ ReturnResponse

Spec == Init /\ [][Next]_vars

\* ------------------------------------------------------------ properties

\* The request handled last went to the dispatcher with this action.
Handled(a) == pc = "done" /\ req.action = a
AnyHandled == pc = "done" /\ req.action # ""

TableResolved == resolveTableName(req.p).kind = "name"

\* The statements of the events of one kind.
EventStmts(kind) ==
  UNION {Range(out.events[i].stmts) :
           i \in {j \in 1..Len(out.events) : out.events[j].e = kind}}
SubmittedStmts == EventStmts("prepare") \cup EventStmts("execute")

NoStoreCall == \A i \in 1..Len(out.events) : out.events[i].e = "errDelegate"
NoneExecuted == \A i \in 1..Len(out.events) : out.events[i].e # "execute"
Untouched == db = before

AllowedIdents == {Chars[k] : k \in Columns}

\* The caller-supplied column names of the request, in payload order.
CallerColumns ==
  CASE req.action \in {"post", "delete"} -> KeyChars(PayloadKeys(req.p))
    [] req.action = "put" -> KeyChars(Without(PayloadKeys(req.p), {"id", "c1"}))
    [] req.action = "get" ->
         KeyChars(Without(PayloadKeys(req.p), Range(allowedQueryOptions)))
    [] req.action = "create_index" ->
         (IF Get(req.p.fields, "column") = Undef THEN <<>>
          ELSE <<ToText(Get(req.p.fields, "column"))>>)
    [] OTHER -> <<>>
InvalidColumns == SelectSeqBy(CallerColumns, Range(CallerColumns) \ AllowedIdents)

\* C1: batch_post is all-or-nothing at validation: with a record holding a key
\* outside the allow-list the batch fails and no insert is submitted; with N
\* valid records the N inserts go as one batch and the result says inserted = N.
BatchRecordsOf == req.p.data.items
BatchHasInvalidKey ==
  \E i \in 1..Len(BatchRecordsOf) :
    \E j \in 1..Len(BatchRecordsOf[i].fields) : BatchRecordsOf[i].fields[j][1] \notin Columns
BatchAllValid ==
  \A i \in 1..Len(BatchRecordsOf) :
    /\ BatchRecordsOf[i].isObj
    /\ BatchRecordsOf[i].fields # <<>>
    /\ \A j \in 1..Len(BatchRecordsOf[i].fields) : BatchRecordsOf[i].fields[j][1] \in Columns
C1_BatchAllOrNothing ==
  Handled("batch_post") /\ TableResolved /\ req.p.data.isArray =>
    /\ BatchHasInvalidKey => HasError(out.ret) /\ NoneExecuted /\ Untouched
    /\ BatchAllValid /\ req.fault = "" /\ before.exists =>
         /\ out.ret.tag = "inserted"
         /\ out.ret.n = Len(BatchRecordsOf)
         /\ \E i \in 1..Len(out.events) :
              out.events[i].e = "execute" /\ Len(out.events[i].stmts) = Len(BatchRecordsOf)
         /\ Cardinality(db.rows) = Cardinality(before.rows) + Len(BatchRecordsOf)

\* C2: whatever the action and the payload, a table_name that is missing, blank
\* or a forbidden catalog name gives the error "Invalid or missing table_name",
\* no statement is prepared or executed, and the store is unchanged.
Blank(cs) == \A i \in 1..Len(cs) : IsSpace(cs[i])
BadTableName(tn) ==
  \/ tn.t \in {"undef", "null"}
  \/ tn.t = "str" /\ (Blank(tn.s) \/ tn.s \in FORBIDDEN_TABLES)
C2_InvalidTableRejected ==
  AnyHandled /\ BadTableName(req.p.table_name) =>
    /\ out.ret = RetError(Err("Invalid or missing table_name"))
    /\ resp.type = "nack"
    /\ NoStoreCall
    /\ Untouched
C2_Witness ==
  /\ Handled("exec")
  /\ req.p.table_name = Str(SQLITE_MASTER)
  /\ Truthy(Get(req.p.fields, "query"))
  /\ resp = nack("REQUEST_FAILED", Err("Invalid or missing table_name"))

\* C3: every failure of an authenticated request with a payload ends as a nack
\* with code REQUEST_FAILED carrying the message; no exception leaves
\* handleApiRequest / handleApi and no failure is answered with an ack.
C3_FailuresBecomeNacks ==
  AnyHandled =>
    /\ resp.type \in {"ack", "nack"}
    /\ out.ret.tag = "error" => resp = nack("REQUEST_FAILED", out.ret.error)

\* C4: every caller-supplied column identifier interpolated into the text of a
\* statement (insert columns, SET, WHERE, ORDER BY, index column, and the column
\* part of an index name) is on the allow-list.
StmtIdents(st) ==
  {Chars[k] : k \in Range(st.cols) \cup Range(st.where)
                     \cup (IF st.orderBy = "" THEN {} ELSE {st.orderBy})}
  \cup (IF st.idx = <<>> THEN {} ELSE {st.idx})
C4_OnlyAllowedIdentifiers ==
  pc = "done" => \A st \in SubmittedStmts : StmtIdents(st) \subseteq AllowedIdents

\* C5: for post, put, delete, get and create_index, a caller column outside the
\* allow-list makes the operation fail with an error naming exactly the invalid
\* keys (all of them, no valid one), and no statement is executed.
ColumnActions == {"post", "put", "delete", "get", "create_index"}
C5_NamesExactlyInvalid ==
  pc = "done" /\ req.action \in ColumnActions /\ TableResolved /\ InvalidColumns # <<>> =>
    /\ HasError(out.ret)
    /\ Range(out.ret.error.names) = Range(InvalidColumns)
    /\ NoStoreCall
    /\ Untouched

\* C5 as amended: the operation fails and no statement is prepared or executed;
\* post, delete, create_index and a put that carries id or c1 name exactly the
\* invalid keys, in payload order; get names only the first invalid filter key;
\* a put with neither id nor c1 fails with the missing-identifier error.
PutHasNoIdentifier ==
  ~NotNullish(Get(req.p.fields, "id")) /\ ~NotNullish(Get(req.p.fields, "c1"))
C5_InvalidColumnsRejected ==
  pc = "done" /\ req.action \in ColumnActions /\ TableResolved /\ InvalidColumns # <<>> =>
    /\ HasError(out.ret)
    /\ NoStoreCall
    /\ Untouched
    /\ CASE req.action = "put" /\ PutHasNoIdentifier ->
              out.ret.error = Err("Missing 'id' or 'c1' for update")
         [] req.action = "get" -> out.ret.error.names = <<Head(InvalidColumns)>>
         [] OTHER -> out.ret.error.names = InvalidColumns
C5_Witness ==
  /\ Handled("get")
  /\ TableResolved
  /\ Len(InvalidColumns) = 2
  /\ out.ret.error = ErrNaming("Invalid column", <<InvalidColumns[1]>>)

\* C6: put with id or c1 and no other key changes only v2 of the located rows
\* and no other column of any row; put whose id matches no row answers with an
\* error, never a success, and changes no row.
PutLocates(r) ==
  IF NotNullish(Get(req.p.fields, "id"))
    THEN SqlEq(r["id"], Get(req.p.fields, "id"))
    ELSE SqlEq(r["c1"], Get(req.p.fields, "c1"))
C6_PutTouchesOnlyV2 ==
  Handled("put") /\ TableResolved /\ ~PutHasNoIdentifier
    /\ Without(PayloadKeys(req.p), {"id", "c1"}) = <<>> =>
      /\ Cardinality(db.rows) = Cardinality(before.rows)
      /\ \A r \in before.rows :
           \E q \in db.rows :
             /\ \A k \in Columns \ {"v2"} : q[k] = r[k]
             /\ ~PutLocates(r) => q = r
C6_PutNotFoundIsError ==
  Handled("put") /\ TableResolved /\ NotNullish(Get(req.p.fields, "id"))
    /\ (\A r \in before.rows : ~PutLocates(r)) =>
      resp.type = "nack" /\ db.rows = before.rows
C6_PutTouchAndNotFound == C6_PutTouchesOnlyV2 /\ C6_PutNotFoundIsError

\* C7: exec rejects every query text that holds "sqlite_master" or "_cf_" in
\* any letter case with the forbidden-access error, and neither prepares nor
\* executes it.
SameLetter(c, d) ==
  c = d \/ \E i \in 1..Len(UPPER) : {c, d} = {UPPER[i], LOWER[i]}
HoldsAnyCase(text, word) ==
  \E i \in 1..(Len(text) - Len(word) + 1) :
    \A j \in 1..Len(word) : SameLetter(text[i + j - 1], word[j])
QueryNamesCatalog ==
  /\ Get(req.p.fields, "query").t = "str"
  /\ \/ HoldsAnyCase(Get(req.p.fields, "query").s, SQLITE_MASTER)
     \/ HoldsAnyCase(Get(req.p.fields, "query").s, CF_PREFIX)
C7_ExecRejectsCatalogAccess ==
  Handled("exec") /\ TableResolved /\ QueryNamesCatalog =>
    /\ out.ret = RetError(Err("Access to system tables via EXEC is forbidden."))
    /\ NoStoreCall
    /\ Untouched
C7_Witness ==
  /\ Handled("exec")
  /\ TableResolved
  /\ QueryNamesCatalog
  /\ ~Includes(Get(req.p.fields, "query").s, SQLITE_MASTER)
  /\ ~Includes(Get(req.p.fields, "query").s, CF_PREFIX)
  /\ resp = nack("REQUEST_FAILED", Err("Access to system tables via EXEC is forbidden."))

\* C8: delete without a filter deletes every row, reports how many, and emits
\* the DELETE ALL diagnostic before the statement is executed; delete with
\* filters removes exactly the rows matching all of them, and reports how many.
DeleteHits(r) ==
  \A i \in 1..Len(req.p.fields) : SqlEq(r[req.p.fields[i][1]], req.p.fields[i][2])
DeleteServed ==
  /\ Handled("delete")
  /\ TableResolved
  /\ \A i \in 1..Len(req.p.fields) : req.p.fields[i][1] \in Columns
  /\ req.fault = ""
  /\ before.exists
DiagBeforeExecute ==
  \E i \in 1..Len(out.events) :
    /\ out.events[i] = Diag("DELETE ALL")
    /\ \A j \in 1..Len(out.events) : out.events[j].e = "execute" => i < j
DeleteRemovesHits ==
  /\ db.rows = {r \in before.rows : ~DeleteHits(r)}
  /\ out.ret.tag = "deleted"
  /\ req.p.fields = <<>> => db.rows = {} /\ DiagBeforeExecute
C8_DeleteReportsCount ==
  DeleteServed =>
    /\ DeleteRemovesHits
    /\ out.ret.n = Cardinality({r \in before.rows : DeleteHits(r)})

\* C8 as amended: the count reported is the number of rows deleted when the
\* store's result carries 'changes', and 0 when it carries none.
C8_DeleteReportsStoreCount ==
  DeleteServed =>
    /\ DeleteRemovesHits
    /\ out.ret.n = IF req.rep THEN Cardinality({r \in before.rows : DeleteHits(r)}) ELSE 0
C8_Witness ==
  /\ DeleteServed
  /\ req.p.fields = <<>>
  /\ Cardinality(before.rows) = 2
  /\ db.rows = {}
  /\ ~req.rep
  /\ out.ret.n = 0
  /\ out.events[1] = Diag("DELETE ALL")

\* C9: get with both minId and offset fails with the conflict error and issues
\* no query, whatever the other options and filters.
GetHasBoth ==
  NotNullish(Get(req.p.fields, "minId")) /\ NotNullish(Get(req.p.fields, "offset"))
C9_BothPagingConflict ==
  Handled("get") /\ TableResolved /\ GetHasBoth =>
    /\ out.ret = RetError(Err("Cannot use both minId and offset"))
    /\ NoStoreCall

\* C9 as amended: get with both minId and offset fails and issues no query; the
\* error is the conflict error when every filter key is on the allow-list, and
\* the invalid-column error of the first filter key that is not otherwise.
C9_BothPagingRejected ==
  Handled("get") /\ TableResolved /\ GetHasBoth =>
    /\ NoStoreCall
    /\ Untouched
    /\ out.ret = IF InvalidColumns = <<>>
                   THEN RetError(Err("Cannot use both minId and offset"))
                   ELSE RetError(ErrNaming("Invalid column", <<Head(InvalidColumns)>>))
C9_Witness ==
  /\ Handled("get")
  /\ TableResolved
  /\ GetHasBoth
  /\ InvalidColumns # <<>>
  /\ out.ret.error.m = "Invalid column"
  /\ resp.type = "nack"

\* C10: the LIMIT of every query of a get is 100 without a limit, min(limit, 500)
\* for a positive integer, 100 for zero, a negative or a non-integer; so it is
\* always between 1 and 500.
ClaimedLimit(v) ==
  CASE v = Undef -> 100
    [] v.t = "int" /\ v.n >= 1 /\ v.n <= 500 -> v.n
    [] v.t = "int" /\ v.n > 500 -> 500
    [] OTHER -> 100
C10_LimitRule ==
  Handled("get") =>
    \A st \in SubmittedStmts :
      /\ st.limit = ClaimedLimit(Get(req.p.fields, "limit"))
      /\ st.limit >= 1 /\ st.limit <= 500
C10_Witness ==
  /\ Handled("get")
  /\ Get(req.p.fields, "limit") = Num(LimitCap + 1)
  /\ \E i \in 1..Len(out.events) :
       out.events[i].e = "execute" /\ out.events[i].stmts[1].limit = LimitCap

====
